---- MODULE Spec2Model ----
(***************************************************************************)
(* Model of the Capsule examples hub signing handlers:                     *)
(*   - customSignMessage and its v-adjustment (Express, Alchemy AA route), *)
(*   - alchemySessionSignHandler and ethersSessionSignHandler (Express),   *)
(*   - signWithEthers and signWithCosmJS (Deno/Bun pregenerated wallets).  *)
(* Strings the code slices or parses are sequences of one-character        *)
(* strings; a request is a record holding its inputs, its position in the  *)
(* handler and the trace of operations it has performed.                   *)
(***************************************************************************)
EXTENDS Integers, Sequences, FiniteSets, TLC

VARIABLES
    sig,        \* customSignMessage: res.signature as the backend returned it
    adjusted,   \* customSignMessage: `signature` after the v-adjustment
    returned,   \* customSignMessage: the value it returns
    readjusted, \* the v-adjustment applied to an already adjusted signature
    npc,        \* position in the normalizer scenario
    env,        \* process environment variables read by the handlers
    keyShareDB, \* external key-share store: user ids with a share on file
    reqs,       \* the requests: inputs, position, trace, responses
    clients,    \* the CapsuleServer objects the handlers have constructed
    ui          \* the Flutter OAuth screen: its State object and its futures

vars == <<sig, adjusted, returned, readjusted, npc, env, keyShareDB, reqs, clients, ui>>

normVars == <<sig, adjusted, returned, readjusted, npc>>
handlerVars == <<env, keyShareDB, reqs, clients>>

(***************************************************************************)
(* Bounds                                                                  *)
(***************************************************************************)
\* number of signature bytes in front of the recovery byte
MaxPrefixBytes == 1

(***************************************************************************)
(* Hexadecimal strings                                                     *)
(***************************************************************************)
LowerHex == <<"0","1","2","3","4","5","6","7","8","9","a","b","c","d","e","f">>
UpperHex == <<"0","1","2","3","4","5","6","7","8","9","A","B","C","D","E","F">>

HexChars == {LowerHex[k] : k \in 1..16} \cup {UpperHex[k] : k \in 1..16}

\* value of one hexadecimal digit, either case
HexVal(c) == CHOOSE v \in 0..15 : LowerHex[v + 1] = c \/ UpperHex[v + 1] = c

\* parseInt(s, 16) on a string of hexadecimal digits
RECURSIVE ParseInt16(_)
ParseInt16(s) ==
    IF Len(s) = 0 THEN 0
    ELSE 16 * ParseInt16(SubSeq(s, 1, Len(s) - 1)) + HexVal(s[Len(s)])

\* Number.prototype.toString(16): lower case, no leading zero
RECURSIVE ToString16(_)
ToString16(n) ==
    IF n < 16 THEN <<LowerHex[n + 1]>>
    ELSE ToString16(n \div 16) \o <<LowerHex[(n % 16) + 1]>>

\* String.prototype.padStart(len, "0")
RECURSIVE PadStart0(_, _)
PadStart0(s, len) == IF Len(s) >= len THEN s ELSE PadStart0(<<"0">> \o s, len)

\* String.prototype.slice(-k)
SliceLast(s, k) == IF Len(s) <= k THEN s ELSE SubSeq(s, Len(s) - k + 1, Len(s))

\* String.prototype.slice(0, -k)
SliceButLast(s, k) == IF Len(s) <= k THEN <<>> ELSE SubSeq(s, 1, Len(s) - k)

(***************************************************************************)
(* customSignMessage                                                       *)
(***************************************************************************)
\* the threshold below which the recovery byte is adjusted, and the offset
VThreshold == 27
VOffset == 27

AdjustV_OffByOne(signature) ==
    LET lastByte == ParseInt16(SliceLast(signature, 2)) IN
    IF lastByte <= VThreshold
    THEN SliceButLast(signature, 2) \o PadStart0(ToString16(lastByte + VOffset), 2)
    ELSE signature

AdjustV_Unconditional(signature) ==
    LET lastByte == ParseInt16(SliceLast(signature, 2)) IN
    SliceButLast(signature, 2) \o PadStart0(ToString16(lastByte + VOffset), 2)

AdjustV_SliceOne(signature) ==
    LET lastByte == ParseInt16(SliceLast(signature, 2)) IN
    IF lastByte < VThreshold
    THEN SliceButLast(signature, 1) \o ToString16(lastByte + VOffset)
    ELSE signature

\* lines 129-134: adjust `v` if it is below 27
AdjustV(signature) ==
    LET lastByte == ParseInt16(SliceLast(signature, 2)) IN
    IF lastByte < VThreshold
    THEN SliceButLast(signature, 2) \o PadStart0(ToString16(lastByte + VOffset), 2)
    ELSE signature

\* line 136: return `0x${signature}`
WithPrefix0x(signature) == <<"0", "x">> \o signature

\* the signatures the signing backend may return: hexadecimal digits, whole
\* bytes, the recovery byte last
PrefixDigits == {"0", "a", "F"}

RECURSIVE HexStrings(_)
HexStrings(nBytes) ==
    IF nBytes = 0 THEN {<<>>}
    ELSE {<<a, b>> \o s : a \in PrefixDigits, b \in PrefixDigits, s \in HexStrings(nBytes - 1)}

BackendSignatures ==
    {p \o <<a, b>> : p \in UNION {HexStrings(n) : n \in 0..MaxPrefixBytes},
                     a \in HexChars, b \in HexChars}

\* the recovery byte of a signature given as hexadecimal digits
FinalByte(s) == ParseInt16(SliceLast(s, 2))

\* customSignMessage, lines 125-136: the backend answers, v is adjusted
CustomSignMessage ==
    /\ npc = "idle"
    /\ \E s \in BackendSignatures :
         /\ sig' = s
         /\ adjusted' = AdjustV(s)
         /\ returned' = WithPrefix0x(AdjustV(s))
    /\ npc' = "signed"
    /\ UNCHANGED <<readjusted, handlerVars, ui>>

\* the v-adjustment run again on a signature that went through it
ReAdjust ==
    /\ npc = "signed"
    /\ readjusted' = AdjustV(adjusted)
    /\ npc' = "readjusted"
    /\ UNCHANGED <<sig, adjusted, returned, handlerVars, ui>>

(***************************************************************************)
(* Requests, environment, key-share store                                  *)
(***************************************************************************)
ReqIds == {1, 2}

Routes == {"alchemySession", "ethersSession", "signWithEthers", "signWithCosmJS"}
ExpressRoutes == {"alchemySession", "ethersSession"}
PregenRoutes == {"signWithEthers", "signWithCosmJS"}

\* a field the JSON body does not carry, a variable the environment lacks
Absent == "<absent>"

EnvNames == {"CAPSULE_API_KEY", "ALCHEMY_API_KEY", "ALCHEMY_GAS_POLICY_ID"}
EnvValues == {Absent, "", "key"}

\* JavaScript `!x` on a string or undefined
Falsy(v) == v = Absent \/ v = ""

UserEmails == {"a@b.com", "c@d.com"}
EmailValues == {Absent, ""} \cup UserEmails
SessionValues == {Absent, "", "abc"}

\* a body that parses to an object, or one that does not (req.body left
\* undefined, req.json() rejecting or yielding null)
Bodies ==
    {[parses |-> TRUE, email |-> e, session |-> s] : e \in EmailValues, s \in SessionValues}
        \cup {[parses |-> FALSE, email |-> Absent, session |-> Absent]}

\* Authorization headers, as characters
NoHeader == [present |-> FALSE, value |-> <<>>]
Header(v) == [present |-> TRUE, value |-> v]
Headers ==
    { NoHeader,
      Header(<<"B","e","a","r","e","r">>),
      Header(<<"B","e","a","r","e","r"," ">>),
      Header(<<"B","a","s","i","c"," ","t">>),
      Header(<<"B","e","a","r","e","r"," ","t">>),
      Header(<<"B","e","a","r","e","r"," ","t"," ","u">>) }

BearerPrefix == <<"B","e","a","r","e","r"," ">>

\* String.prototype.startsWith
StartsWith(s, prefix) ==
    Len(s) >= Len(prefix) /\ SubSeq(s, 1, Len(prefix)) = prefix

\* String.prototype.split(" ")
RECURSIVE SplitSpace(_)
SplitSpace(s) ==
    IF \A k \in 1..Len(s) : s[k] # " " THEN <<s>>
    ELSE LET k == CHOOSE j \in 1..Len(s) : s[j] = " " /\ \A m \in 1..(j - 1) : s[m] # " "
         IN <<SubSeq(s, 1, k - 1)>> \o SplitSpace(SubSeq(s, k + 1, Len(s)))

\* the result of simulateVerifyToken: null or a user with an email
NullUser == "null"

IdleReq ==
    [ route |-> "none", hdr |-> NoHeader,
      body |-> [parses |-> FALSE, email |-> Absent, session |-> Absent],
      pc |-> "idle", ops |-> <<>>, responses |-> <<>>,
      token |-> <<>>, user |-> NullUser, email |-> Absent, session |-> Absent,
      hasPregenWallet |-> "unknown", keyShare |-> "unknown",
      uo |-> <<>>, result |-> "none", payload |-> "none",
      client |-> 0, signedBy |-> <<>>, artifacts |-> <<>>,
      rejected |-> FALSE ]

\* a request slot no client uses
OffReq == [IdleReq EXCEPT !.pc = "off"]

(***************************************************************************)
(* Trace of a request: <<"do", op>> an operation performed or a call       *)
(* started, <<"ok", op>> an awaited call that returned, <<"throw", op>>    *)
(* an operation that threw.                                                *)
(***************************************************************************)
Do(r, op) == [r EXCEPT !.ops = Append(@, <<"do", op>>)]
Ok(r, op) == [r EXCEPT !.ops = Append(@, <<"ok", op>>)]
Threw(r, op) == [r EXCEPT !.ops = Append(@, <<"throw", op>>)]

\* start an awaited call: the handler is suspended until it settles
Call(r, op) == [Do(r, op) EXCEPT !.pc = op]

\* res.status(s).send(...) / return new Response(..., { status: s })
Respond(r, status) ==
    [Do(r, "respond") EXCEPT !.responses = Append(@, status), !.pc = "done"]

ExpressCatch_NoNext(r, op) ==
    [Do(Threw(r, op), "console.error") EXCEPT !.pc = "done"]

\* res.status(200).json({ ..., <artifact> })
RespondWith(r, status, artifact) == [Respond(r, status) EXCEPT !.payload = artifact]

\* Express handlers, catch (error) { console.error(...); next(error); }
ExpressCatch(r, op) ==
    [Do(Do(Threw(r, op), "console.error"), "next") EXCEPT !.pc = "done"]

\* Deno/Bun handlers have no try/catch: the handler's promise rejects
Reject(r, op) == [Threw(r, op) EXCEPT !.pc = "done", !.rejected = TRUE]

Fail(r, op) == IF r.route \in ExpressRoutes THEN ExpressCatch(r, op) ELSE Reject(r, op)

\* a CapsuleServer object holds the identity its importSession or
\* setUserShare installed; none until then
NoIdentity == [by |-> 0, cred |-> Absent]
NewClientObject(i) == [creator |-> i, identity |-> NoIdentity]

\* what a request resolves its identity from: the session it imports
\* (Express) or the key share of its email (Deno/Bun)
Credential(r) == IF r.route \in ExpressRoutes THEN r.session ELSE r.email

ResolvingCalls == {"importSession", "setUserShare"}

NewClient_Shared(r) ==
    [Do(r, "new CapsuleServer") EXCEPT !.client = 1]

\* new CapsuleServer(Environment.BETA, CAPSULE_API_KEY): a fresh object,
\* local to the handler's invocation
NewClient(r) ==
    [Do(r, "new CapsuleServer") EXCEPT !.client = Len(clients) + 1]

\* the CapsuleServer objects after request i's step took it to r: the object
\* the step constructed, the identity a returned importSession/setUserShare
\* installed in the request's object
Heap(i, r) ==
    LET created == IF r.client > Len(clients)
                   THEN Append(clients, NewClientObject(i)) ELSE clients
        resolved == \E k \in (Len(reqs[i].ops) + 1)..Len(r.ops) :
                       r.ops[k][1] = "ok" /\ r.ops[k][2] \in ResolvingCalls
    IN IF resolved
       THEN [created EXCEPT ![r.client].identity = [by |-> i, cred |-> Credential(r)]]
       ELSE created

\* a signing call returned: the backend signed for the identity the
\* request's CapsuleServer object holds, and the handler passes `out` on
Sign(r, op, via, to, raw, out) ==
    [r EXCEPT !.signedBy = Append(@, clients[r.client].identity),
              !.artifacts = Append(@, [op |-> op, via |-> via, to |-> to,
                                       raw |-> raw, out |-> out])]

Set(i, r) ==
    /\ reqs' = [reqs EXCEPT ![i] = r]
    /\ clients' = Heap(i, r)

\* an awaited call settles: it returns or it throws
Outcomes == {"ok", "throw"}

\* request i of `route` is suspended on the awaited call `op`
Awaits(i, route, op) == reqs[i].route = route /\ reqs[i].pc = op

Settled_RetryOnce(r, op, outcome, next) ==
    IF outcome = "ok" THEN next
    ELSE IF \A k \in 1..Len(r.ops) : r.ops[k] # <<"throw", op>>
         THEN Call(Threw(r, op), op)
         ELSE Fail(r, op)

Settled_Timeout(r, op, outcome, next) ==
    IF outcome = "ok" THEN next ELSE Respond(r, 504)

\* where the handler goes when `op` settles: on with `next`, or to its failure path
Settled(r, op, outcome, next) == IF outcome = "ok" THEN next ELSE Fail(r, op)

\* a client sends a request to one of the routes
Receive(i) ==
    /\ reqs[i].pc = "idle"
    /\ \E route \in Routes, h \in Headers, b \in Bodies :
         Set(i, [reqs[i] EXCEPT !.route = route, !.hdr = h, !.body = b, !.pc = "start"])
    /\ UNCHANGED <<env, keyShareDB, normVars, ui>>

(***************************************************************************)
(* alchemySessionSignHandler (Express)                                     *)
(***************************************************************************)
AlchemyConfigured_ForgetsGasPolicy(r) ==
    IF Falsy(env["ALCHEMY_API_KEY"])
    THEN Respond(r, 500)
    ELSE Call(NewClient(r), "importSession")

\* lines 52-61: the Alchemy variables, then the client and importSession
AlchemyConfigured(r) ==
    IF Falsy(env["ALCHEMY_API_KEY"]) \/ Falsy(env["ALCHEMY_GAS_POLICY_ID"])
    THEN Respond(r, 500)
    ELSE Call(NewClient(r), "importSession")

\* lines 44-51: read the environment, CAPSULE_API_KEY must be set
AlchemyCheckEnv(r) ==
    LET r1 == Do(r, "process.env") IN
    IF Falsy(env["CAPSULE_API_KEY"]) THEN Respond(r1, 500) ELSE AlchemyConfigured(r1)

AlchemyValidate_NoSessionCheck(r) ==
    AlchemyCheckEnv([r EXCEPT !.session = r.body.session])

\* lines 36-40: `session` is required
AlchemyValidate(r) ==
    LET r1 == [r EXCEPT !.session = r.body.session] IN
    IF Falsy(r1.session) THEN Respond(r1, 400) ELSE AlchemyCheckEnv(r1)

\* lines 34-61, up to the first await
AlchemyStart(i) ==
    /\ reqs[i].route = "alchemySession"
    /\ reqs[i].pc = "start"
    /\ LET r0 == Do(reqs[i], "req.body") IN
       Set(i, IF ~r0.body.parses THEN ExpressCatch(r0, "req.body") ELSE AlchemyValidate(r0))
    /\ UNCHANGED <<env, keyShareDB, normVars, ui>>

\* lines 61-88: session imported; viem client, signMessage override, signer,
\* then the Alchemy AA client
AlchemyAfterImportSession(i) ==
    /\ Awaits(i, "alchemySession", "importSession")
    /\ \E outcome \in Outcomes :
         Set(i, Settled(reqs[i], "importSession", outcome,
                        Call(Do(Do(Ok(reqs[i], "importSession"), "createCapsuleViemClient"),
                                "new WalletClientSigner"),
                             "createModularAccountAlchemyClient")))
    /\ UNCHANGED <<env, keyShareDB, normVars, ui>>

EXAMPLE_CONTRACT_ADDRESS == "0x7920b6d8b07f0b9a3b96f238c64e022278db1419"

\* line 92: the inputs mapped to calls
ChangeXInputs == <<1, 2, 3, 4, 5>>

\* viem encodeFunctionData({ abi, functionName, args }): the call it encodes
EncodeFunctionData(functionName, args) == [functionName |-> functionName, args |-> args]

DemoUserOperations_IndexAsArg ==
    [k \in 1..Len(ChangeXInputs) |->
        [target |-> EXAMPLE_CONTRACT_ADDRESS,
         data |-> EncodeFunctionData("changeX", <<k - 1>>)]]

\* lines 92-99: one changeX(x) call on the Example contract per input
DemoUserOperations ==
    [k \in 1..Len(ChangeXInputs) |->
        [target |-> EXAMPLE_CONTRACT_ADDRESS,
         data |-> EncodeFunctionData("changeX", <<ChangeXInputs[k]>>)]]

\* signatures the signing backend may return, by their final byte
SignaturesSeen ==
    { <<"a", "F">> \o v : v \in {<<"0", "0">>, <<"0", "1">>, <<"1", "b">>, <<"1", "C">>} }

ViemSignMessage_NoOverride(res) == WithPrefix0x(res)

\* lines 72-75, 123-137: viemClient.signMessage is customSignMessage, which
\* returns the backend's signature with its final byte adjusted
ViemSignMessage(res) == WithPrefix0x(AdjustV(res))

\* what the bundler may answer to sendUserOperation
UserOpResults == {"0xuohash1", "0xuohash2"}

\* lines 81-103: AA client ready; build the batch and send it
AlchemyAfterCreateClient(i) ==
    /\ Awaits(i, "alchemySession", "createModularAccountAlchemyClient")
    /\ \E outcome \in Outcomes :
         Set(i, Settled(reqs[i], "createModularAccountAlchemyClient", outcome,
                        Call([Ok(reqs[i], "createModularAccountAlchemyClient")
                                 EXCEPT !.uo = DemoUserOperations],
                             "sendUserOperation")))
    /\ UNCHANGED <<env, keyShareDB, normVars, ui>>

\* lines 103-109: answer 200 with the userOperationResult
AlchemyRespond(r, userOperationResult) ==
    RespondWith([r EXCEPT !.result = userOperationResult], 200, userOperationResult)

\* lines 103-109: user operation sent; answer 200
AlchemyAfterSendUserOperation(i) ==
    /\ Awaits(i, "alchemySession", "sendUserOperation")
    /\ \E outcome \in Outcomes, res \in UserOpResults, s \in SignaturesSeen :
         Set(i, Settled(reqs[i], "sendUserOperation", outcome,
                        AlchemyRespond(Sign(Ok(reqs[i], "sendUserOperation"), "signMessage",
                                            "customSignMessage", "alchemyClient",
                                            s, ViemSignMessage(s)), res)))
    /\ UNCHANGED <<env, keyShareDB, normVars, ui>>

(***************************************************************************)
(* ethersSessionSignHandler (Express)                                      *)
(***************************************************************************)
\* lines 173-182: CAPSULE_API_KEY must be set, then the client and importSession
EthersSessionCheckEnv(r) ==
    LET r1 == Do(r, "process.env") IN
    IF Falsy(env["CAPSULE_API_KEY"]) THEN Respond(r1, 500)
    ELSE Call(NewClient(r1), "importSession")

EthersSessionValidate_NoReturn(r) ==
    LET r1 == [r EXCEPT !.email = r.body.email, !.session = r.body.session] IN
    IF Falsy(r1.email) \/ Falsy(r1.session) THEN EthersSessionCheckEnv(Respond(r1, 400))
    ELSE EthersSessionCheckEnv(r1)

\* lines 165-169: `email` and `session` are both required
EthersSessionValidate(r) ==
    LET r1 == [r EXCEPT !.email = r.body.email, !.session = r.body.session] IN
    IF Falsy(r1.email) \/ Falsy(r1.session) THEN Respond(r1, 400)
    ELSE EthersSessionCheckEnv(r1)

\* lines 162-182, up to the first await
EthersSessionStart(i) ==
    /\ reqs[i].route = "ethersSession"
    /\ reqs[i].pc = "start"
    /\ LET r0 == Do(reqs[i], "req.body") IN
       Set(i, IF ~r0.body.parses THEN ExpressCatch(r0, "req.body")
              ELSE EthersSessionValidate(r0))
    /\ UNCHANGED <<env, keyShareDB, normVars, ui>>

\* lines 182-194: session imported; provider, signer, getAddress
EthersSessionAfterImportSession(i) ==
    /\ Awaits(i, "ethersSession", "importSession")
    /\ \E outcome \in Outcomes :
         Set(i, Settled(reqs[i], "importSession", outcome,
                        Call(Do(Do(Ok(reqs[i], "importSession"), "new JsonRpcProvider"),
                                "new CapsuleEthersSigner"),
                             "getAddress")))
    /\ UNCHANGED <<env, keyShareDB, normVars, ui>>

\* lines 194-202: address known; the transaction's nonce
EthersSessionAfterGetAddress(i) ==
    /\ Awaits(i, "ethersSession", "getAddress")
    /\ \E outcome \in Outcomes :
         Set(i, Settled(reqs[i], "getAddress", outcome,
                        Call(Ok(reqs[i], "getAddress"), "getTransactionCount")))
    /\ UNCHANGED <<env, keyShareDB, normVars, ui>>

\* lines 202-204: nonce known; the gas price
EthersSessionAfterGetTransactionCount(i) ==
    /\ Awaits(i, "ethersSession", "getTransactionCount")
    /\ \E outcome \in Outcomes :
         Set(i, Settled(reqs[i], "getTransactionCount", outcome,
                        Call(Ok(reqs[i], "getTransactionCount"), "getFeeData")))
    /\ UNCHANGED <<env, keyShareDB, normVars, ui>>

\* lines 204-209: transaction built; sign it
EthersSessionAfterGetFeeData(i) ==
    /\ Awaits(i, "ethersSession", "getFeeData")
    /\ \E outcome \in Outcomes :
         Set(i, Settled(reqs[i], "getFeeData", outcome,
                        Call(Ok(reqs[i], "getFeeData"), "signTransaction")))
    /\ UNCHANGED <<env, keyShareDB, normVars, ui>>

\* lines 209-216: transaction signed; answer 200
EthersSessionAfterSignTransaction(i) ==
    /\ Awaits(i, "ethersSession", "signTransaction")
    /\ \E outcome \in Outcomes, signedTx \in SignaturesSeen :
         Set(i, Settled(reqs[i], "signTransaction", outcome,
                        Respond(Sign(Ok(reqs[i], "signTransaction"), "signTransaction",
                                     "CapsuleEthersSigner", "response",
                                     signedTx, signedTx), 200)))
    /\ UNCHANGED <<env, keyShareDB, normVars, ui>>

(***************************************************************************)
(* signWithEthers and signWithCosmJS (Deno/Bun): the two handlers share    *)
(* their text up to setUserShare                                           *)
(***************************************************************************)
PregenVerify_NullAccepted(r, u) ==
    LET r1 == Do([r EXCEPT !.token = SplitSpace(r.hdr.value)[2]], "simulateVerifyToken") IN
    Call([r1 EXCEPT !.user = u], "req.json")

\* lines 20-28: the token is verified, then the body is read
PregenVerify(r, u) ==
    LET r1 == Do([r EXCEPT !.token = SplitSpace(r.hdr.value)[2]], "simulateVerifyToken") IN
    IF u = NullUser THEN Respond(r1, 401)
    ELSE Call([r1 EXCEPT !.user = u], "req.json")

\* lines 14-18: the Authorization header must be a bearer credential
PregenAuthenticate(r, u) ==
    LET r1 == Do(r, "headers.get") IN
    IF ~r1.hdr.present \/ Len(r1.hdr.value) = 0 \/ ~StartsWith(r1.hdr.value, BearerPrefix)
    THEN Respond(r1, 401)
    ELSE PregenVerify(r1, u)

\* lines 14-28, up to the first await; u is what simulateVerifyToken answers
PregenStart(i) ==
    /\ reqs[i].route \in PregenRoutes
    /\ reqs[i].pc = "start"
    /\ \E u \in {NullUser} \cup UserEmails : Set(i, PregenAuthenticate(reqs[i], u))
    /\ UNCHANGED <<env, keyShareDB, normVars, ui>>

PregenCheckEnv_NoCheck(r) ==
    Call(NewClient(Do(r, "Deno.env.get")), "hasPregenWallet")

\* lines 34-42: CAPSULE_API_KEY must be set, then the client and hasPregenWallet
PregenCheckEnv(r) ==
    LET r1 == Do(r, "Deno.env.get") IN
    IF Falsy(env["CAPSULE_API_KEY"]) THEN Respond(r1, 500)
    ELSE Call(NewClient(r1), "hasPregenWallet")

PregenAuthorize_NoSubjectCheck(r) ==
    PregenCheckEnv([r EXCEPT !.email = r.body.email])

\* lines 28-32: the token's subject must be the requested email
PregenAuthorize(r) ==
    LET r1 == [r EXCEPT !.email = r.body.email] IN
    IF r1.user # r1.email THEN Respond(r1, 403) ELSE PregenCheckEnv(r1)

\* lines 28-42: the body has been read (or req.json() rejected)
PregenAfterJson(i) ==
    /\ reqs[i].route \in PregenRoutes
    /\ reqs[i].pc = "req.json"
    /\ Set(i, IF ~reqs[i].body.parses THEN Reject(reqs[i], "req.json")
              ELSE PregenAuthorize(Ok(reqs[i], "req.json")))
    /\ UNCHANGED <<env, keyShareDB, normVars, ui>>

\* lines 54-56: decrypt the share and install it
PregenDecrypt(r, decrypts) ==
    LET r1 == Do(r, "decrypt") IN
    IF decrypts THEN Call(r1, "setUserShare") ELSE Reject(r1, "decrypt")

PregenKeyShare_NoCheck(r, decrypts) ==
    LET found == r.email \in keyShareDB
        r1 == [Do(r, "getKeyShareInDB") EXCEPT !.keyShare = IF found THEN "found" ELSE "none"]
    IN PregenDecrypt(r1, decrypts)

\* lines 48-52: the key share must be on file
PregenKeyShare(r, decrypts) ==
    LET found == r.email \in keyShareDB
        r1 == [Do(r, "getKeyShareInDB") EXCEPT !.keyShare = IF found THEN "found" ELSE "none"]
    IN IF ~found THEN Respond(r1, 400) ELSE PregenDecrypt(r1, decrypts)

\* lines 42-46: the wallet must exist
PregenWalletExists(r, has, decrypts) ==
    LET r1 == [Ok(r, "hasPregenWallet") EXCEPT
                  !.hasPregenWallet = IF has THEN "true" ELSE "false"] IN
    IF ~has THEN Respond(r1, 400) ELSE PregenKeyShare(r1, decrypts)

\* lines 42-56: hasPregenWallet settled
PregenAfterHasPregenWallet(i) ==
    /\ reqs[i].route \in PregenRoutes
    /\ reqs[i].pc = "hasPregenWallet"
    /\ \/ Set(i, Reject(reqs[i], "hasPregenWallet"))
       \/ \E has \in BOOLEAN, decrypts \in BOOLEAN :
            Set(i, PregenWalletExists(reqs[i], has, decrypts))
    /\ UNCHANGED <<env, keyShareDB, normVars, ui>>

\* signWithEthers lines 56-62: share installed; provider, signer, getAddress
EthersAfterSetUserShare(i) ==
    /\ Awaits(i, "signWithEthers", "setUserShare")
    /\ \E outcome \in Outcomes :
         Set(i, Settled(reqs[i], "setUserShare", outcome,
                        Call(Do(Do(Ok(reqs[i], "setUserShare"), "new JsonRpcProvider"),
                                "new CapsuleEthersSigner"),
                             "getAddress")))
    /\ UNCHANGED <<env, keyShareDB, normVars, ui>>

\* lines 62-66: address known; sign the message
EthersAfterGetAddress(i) ==
    /\ Awaits(i, "signWithEthers", "getAddress")
    /\ \E outcome \in Outcomes :
         Set(i, Settled(reqs[i], "getAddress", outcome,
                        Call(Ok(reqs[i], "getAddress"), "signMessage")))
    /\ UNCHANGED <<env, keyShareDB, normVars, ui>>

\* lines 66-71: message signed; the transaction's nonce
EthersAfterSignMessage(i) ==
    /\ Awaits(i, "signWithEthers", "signMessage")
    /\ \E outcome \in Outcomes, signMessageResult \in SignaturesSeen :
         Set(i, Settled(reqs[i], "signMessage", outcome,
                        Call(Sign(Ok(reqs[i], "signMessage"), "signMessage",
                                  "CapsuleEthersSigner", "response",
                                  signMessageResult, signMessageResult),
                             "getTransactionCount")))
    /\ UNCHANGED <<env, keyShareDB, normVars, ui>>

\* lines 71-73: nonce known; the gas price
EthersAfterGetTransactionCount(i) ==
    /\ Awaits(i, "signWithEthers", "getTransactionCount")
    /\ \E outcome \in Outcomes :
         Set(i, Settled(reqs[i], "getTransactionCount", outcome,
                        Call(Ok(reqs[i], "getTransactionCount"), "getFeeData")))
    /\ UNCHANGED <<env, keyShareDB, normVars, ui>>

\* lines 73-76: transaction built; sign it
EthersAfterGetFeeData(i) ==
    /\ Awaits(i, "signWithEthers", "getFeeData")
    /\ \E outcome \in Outcomes :
         Set(i, Settled(reqs[i], "getFeeData", outcome,
                        Call(Ok(reqs[i], "getFeeData"), "signTransaction")))
    /\ UNCHANGED <<env, keyShareDB, normVars, ui>>

\* lines 76-78: transaction signed; answer 200
EthersAfterSignTransaction(i) ==
    /\ Awaits(i, "signWithEthers", "signTransaction")
    /\ \E outcome \in Outcomes, signedTx \in SignaturesSeen :
         Set(i, Settled(reqs[i], "signTransaction", outcome,
                        Respond(Sign(Ok(reqs[i], "signTransaction"), "signTransaction",
                                     "CapsuleEthersSigner", "response",
                                     signedTx, signedTx), 200)))
    /\ UNCHANGED <<env, keyShareDB, normVars, ui>>

\* signWithCosmJS lines 80-87: share installed; proto signer, connectWithSigner
CosmAfterSetUserShare(i) ==
    /\ Awaits(i, "signWithCosmJS", "setUserShare")
    /\ \E outcome \in Outcomes :
         Set(i, Settled(reqs[i], "setUserShare", outcome,
                        Call(Do(Ok(reqs[i], "setUserShare"), "new CapsuleProtoSigner"), "connectWithSigner")))
    /\ UNCHANGED <<env, keyShareDB, normVars, ui>>

\* lines 84-116: connected; build the MsgSend and sign it
CosmAfterConnectWithSigner(i) ==
    /\ Awaits(i, "signWithCosmJS", "connectWithSigner")
    /\ \E outcome \in Outcomes :
         Set(i, Settled(reqs[i], "connectWithSigner", outcome,
                        Call(Ok(reqs[i], "connectWithSigner"), "sign")))
    /\ UNCHANGED <<env, keyShareDB, normVars, ui>>

\* lines 116-118: signed; answer 200
CosmAfterSign(i) ==
    /\ Awaits(i, "signWithCosmJS", "sign")
    /\ \E outcome \in Outcomes, signResult \in SignaturesSeen :
         Set(i, Settled(reqs[i], "sign", outcome,
                        Respond(Sign(Ok(reqs[i], "sign"), "sign",
                                     "CapsuleProtoSigner", "response",
                                     signResult, signResult), 200)))
    /\ UNCHANGED <<env, keyShareDB, normVars, ui>>

(***************************************************************************)
(* Flutter OAuth screen, _CapsuleOAuthExampleState.  Each action is one    *)
(* await-delimited segment of _checkLoginStatus or of a login attempt      *)
(* (_handleOAuthLogin with the _handleNewUserSetup / _handlePasskeyLogin   *)
(* it awaits); a completed inner future resumes its awaiter in a microtask,*)
(* before any tap or frame, so that resumption belongs to the same step.   *)
(***************************************************************************)
\* login attempts (taps) considered
MaxAttempts == 2

\* lines 322-353: the buttons' providers; farcaster takes its own branch
Providers == {"google", "farcaster"}
NullProvider == "null"

\* lines 20-24 and initState: fields at construction, _checkLoginStatus
\* already awaiting isFullyLoggedIn
UiInit ==
    [ mounted |-> TRUE, isLoading |-> FALSE, loadingProvider |-> NullProvider,
      wallet |-> "null", check |-> "isFullyLoggedIn", login |-> "idle",
      auth |-> "none", navigated |-> FALSE, snackBars |-> 0,
      late |-> {}, attempts |-> 0 ]

\* no screen
UiOff == [UiInit EXCEPT !.mounted = FALSE, !.check = "off", !.login = "off"]

\* State.setState(fn) called by `who`; `applied` is u after fn.  On a
\* disposed State the call throws: a debug build before running fn (the
\* lifecycle assertion), a release build after it (the `_element!` check)
SetState(u, who, applied) ==
    IF u.mounted THEN {applied}
    ELSE { [u EXCEPT !.late = @ \cup {who}], [applied EXCEPT !.late = @ \cup {who}] }

\* ScaffoldMessenger.of(context).showSnackBar(...)
ShowSnackBar(u) == [u EXCEPT !.snackBars = @ + 1]

\* _handleOAuthLogin lines 109-116: finally
OAuthFinally(u) ==
    IF u.mounted
    THEN [u EXCEPT !.isLoading = FALSE, !.loadingProvider = NullProvider, !.login = "idle"]
    ELSE [u EXCEPT !.login = "idle"]

\* _handleOAuthLogin lines 104-116: catch, then finally
OAuthCatch(u) == OAuthFinally(IF ~u.mounted THEN u ELSE ShowSnackBar(u))

\* _handlePasskeyLogin lines 139-142: setState, then login() is awaited; a
\* throwing setState is outside the try and reaches _handleOAuthLogin's catch
StartPasskeyLogin(u) ==
    { IF u.mounted THEN [v EXCEPT !.login = "login"] ELSE OAuthCatch(v) :
        v \in SetState(u, "_handlePasskeyLogin", [u EXCEPT !.isLoading = TRUE]) }

\* _handleOAuthLogin lines 81-103: the branch on the authentication result
AfterAuthResult(u) ==
    CASE u.auth = "error" -> {OAuthCatch(u)}
      [] u.auth = "new" -> {[u EXCEPT !.login = "verifyOAuth"]}
      [] OTHER -> StartPasskeyLogin(u)

\* what waitForOAuth / waitForFarcasterStatus may resolve to: an existing
\* user, a new user, or (OAuth only) isError or a new user without email
AuthResults(provider) ==
    IF provider = "farcaster" THEN {"existing", "new"} ELSE {"existing", "new", "error"}

\* initState / lines 33-34: isFullyLoggedIn settled
CheckAfterIsFullyLoggedIn ==
    /\ ui.check = "isFullyLoggedIn"
    /\ \E outcome \in {"true", "false", "throw"} :
         ui' = IF outcome = "throw"
               THEN [(IF ui.mounted THEN ShowSnackBar(ui) ELSE ui) EXCEPT !.check = "done"]
               ELSE IF outcome = "true" /\ ui.mounted
                    THEN [ui EXCEPT !.check = "getWallets"]
                    ELSE [ui EXCEPT !.check = "done"]
    /\ UNCHANGED <<normVars, handlerVars>>

\* lines 36-50: getWallets settled; setState is not guarded by `mounted`
CheckAfterGetWallets ==
    /\ ui.check = "getWallets"
    /\ \E outcome \in {"wallets", "empty", "throw"} :
         IF outcome = "wallets"
         THEN \E v \in SetState(ui, "_checkLoginStatus", [ui EXCEPT !.wallet = "wallet"]) :
                ui' = [v EXCEPT !.check = "done"]
         ELSE IF outcome = "throw" /\ ui.mounted
              THEN ui' = [ShowSnackBar(ui) EXCEPT !.check = "done"]
              ELSE ui' = [ui EXCEPT !.check = "done"]
    /\ UNCHANGED <<normVars, handlerVars>>

\* lines 181, 53-66: an enabled button is pressed; up to the first await
HandleOAuthLogin ==
    /\ ui.mounted /\ ~ui.isLoading
    /\ ui.attempts < MaxAttempts
    /\ \E provider \in Providers :
         ui' = [ui EXCEPT !.isLoading = TRUE, !.loadingProvider = provider,
                          !.login = "getURL", !.auth = "none", !.attempts = @ + 1]
    /\ UNCHANGED <<normVars, handlerVars>>

\* lines 66-75: the URL is known; the browser opens, the status is awaited
OAuthAfterGetURL ==
    /\ ui.login = "getURL"
    /\ \E outcome \in Outcomes :
         ui' = IF outcome = "ok" THEN [ui EXCEPT !.login = "waitForAuth"] ELSE OAuthCatch(ui)
    /\ UNCHANGED <<normVars, handlerVars>>

\* lines 75-103: the authentication status arrived
OAuthAfterWaitForAuth ==
    /\ ui.login = "waitForAuth"
    /\ \/ ui' = OAuthCatch(ui)
       \/ \E res \in AuthResults(ui.loadingProvider), isOpened \in BOOLEAN :
            LET u == [ui EXCEPT !.auth = res] IN
            IF isOpened THEN ui' = [u EXCEPT !.login = "close"]
            ELSE ui' \in AfterAuthResult(u)
    /\ UNCHANGED <<normVars, handlerVars>>

\* lines 78-103: the browser closed
OAuthAfterClose ==
    /\ ui.login = "close"
    /\ \/ ui' = OAuthCatch(ui)
       \/ ui' \in AfterAuthResult(ui)
    /\ UNCHANGED <<normVars, handlerVars>>

\* _handleNewUserSetup lines 120-121
NewUserAfterVerifyOAuth ==
    /\ ui.login = "verifyOAuth"
    /\ \E outcome \in Outcomes :
         ui' = IF outcome = "ok" THEN [ui EXCEPT !.login = "generatePasskey"]
               ELSE OAuthCatch(ui)
    /\ UNCHANGED <<normVars, handlerVars>>

\* _handleNewUserSetup lines 121-122
NewUserAfterGeneratePasskey ==
    /\ ui.login = "generatePasskey"
    /\ \E outcome \in Outcomes :
         ui' = IF outcome = "ok" THEN [ui EXCEPT !.login = "createWallet"]
               ELSE OAuthCatch(ui)
    /\ UNCHANGED <<normVars, handlerVars>>

\* _handleNewUserSetup lines 122-135, then _handleOAuthLogin's finally
NewUserAfterCreateWallet ==
    /\ ui.login = "createWallet"
    /\ \E outcome \in Outcomes :
         ui' = IF outcome = "throw" THEN OAuthCatch(ui)
               ELSE IF ~ui.mounted THEN OAuthFinally(ui)
               ELSE OAuthFinally([ui EXCEPT !.wallet = "wallet", !.navigated = TRUE])
    /\ UNCHANGED <<normVars, handlerVars>>

\* _handlePasskeyLogin lines 142-163, then _handleOAuthLogin's finally
PasskeyAfterLogin ==
    /\ ui.login = "login"
    /\ \E outcome \in Outcomes :
         ui' = IF ~ui.mounted THEN OAuthFinally(ui)
               ELSE IF outcome = "throw"
                    THEN OAuthFinally([ShowSnackBar(ui) EXCEPT !.isLoading = FALSE])
                    ELSE OAuthFinally([ui EXCEPT !.wallet = "wallet", !.navigated = TRUE,
                                                 !.isLoading = FALSE])
    /\ UNCHANGED <<normVars, handlerVars>>

\* the framework disposes the State: the screen is popped, or its route was
\* replaced by Navigator.pushReplacement
Dispose ==
    /\ ui.mounted
    /\ ui' = [ui EXCEPT !.mounted = FALSE]
    /\ UNCHANGED <<normVars, handlerVars>>

(***************************************************************************)
(* Specifications                                                          *)
(***************************************************************************)
NormIdle ==
    /\ sig = <<>> /\ adjusted = <<>> /\ returned = <<>> /\ readjusted = <<>>
    /\ npc = "idle"

\* one request served by a process whose environment and key-share store
\* are whatever the deployment made them
Init ==
    /\ NormIdle
    /\ env \in [EnvNames -> EnvValues]
    /\ keyShareDB \in SUBSET UserEmails
    /\ reqs = [i \in ReqIds |-> IF i = 1 THEN IdleReq ELSE OffReq]
    /\ clients = <<>>
    /\ ui = UiOff

\* the steps of the handler serving request i
Steps(i) ==
    \/ AlchemyStart(i)
    \/ AlchemyAfterImportSession(i)
    \/ AlchemyAfterCreateClient(i)
    \/ AlchemyAfterSendUserOperation(i)
    \/ EthersSessionStart(i)
    \/ EthersSessionAfterImportSession(i)
    \/ EthersSessionAfterGetAddress(i)
    \/ EthersSessionAfterGetTransactionCount(i)
    \/ EthersSessionAfterGetFeeData(i)
    \/ EthersSessionAfterSignTransaction(i)
    \/ PregenStart(i)
    \/ PregenAfterJson(i)
    \/ PregenAfterHasPregenWallet(i)
    \/ EthersAfterSetUserShare(i)
    \/ EthersAfterGetAddress(i)
    \/ EthersAfterSignMessage(i)
    \/ EthersAfterGetTransactionCount(i)
    \/ EthersAfterGetFeeData(i)
    \/ EthersAfterSignTransaction(i)
    \/ CosmAfterSetUserShare(i)
    \/ CosmAfterConnectWithSigner(i)
    \/ CosmAfterSign(i)

Handle(i) == Receive(i) \/ Steps(i)

Next == \E i \in ReqIds : Handle(i)

Spec == Init /\ [][Next]_vars

\* every awaited call eventually returns or throws, and the runtime runs a
\* handler that can run
SpecLive == Init /\ [][Next]_vars /\ \A i \in ReqIds : WF_vars(Steps(i))

\* two clients, each sending one well-formed request; the handlers'
\* invocations interleave at their awaits
ConcBodies ==
    {[parses |-> TRUE, email |-> e, session |-> "abc"] : e \in UserEmails}

ReceiveConc(i) ==
    /\ reqs[i].pc = "idle"
    /\ \E route \in Routes, b \in ConcBodies :
         Set(i, [reqs[i] EXCEPT !.route = route, !.body = b, !.pc = "start",
                                !.hdr = Header(<<"B","e","a","r","e","r"," ","t">>)])
    /\ UNCHANGED <<env, keyShareDB, normVars, ui>>

InitConc ==
    /\ NormIdle
    /\ env \in [EnvNames -> {Absent, "key"}]
    /\ env["ALCHEMY_API_KEY"] = "key" /\ env["ALCHEMY_GAS_POLICY_ID"] = "key"
    /\ keyShareDB = {"a@b.com"}
    /\ reqs = [i \in ReqIds |-> IdleReq]
    /\ clients = <<>>
    /\ ui = UiOff

NextConc == \E i \in ReqIds : ReceiveConc(i) \/ Steps(i)

SpecConc == InitConc /\ [][NextConc]_vars

\* the OAuth screen from its construction to its disposal and beyond
InitFlutter ==
    /\ NormIdle
    /\ env = [n \in EnvNames |-> Absent]
    /\ keyShareDB = {}
    /\ reqs = [i \in ReqIds |-> OffReq]
    /\ clients = <<>>
    /\ ui = UiInit

NextFlutter ==
    \/ CheckAfterIsFullyLoggedIn
    \/ CheckAfterGetWallets
    \/ HandleOAuthLogin
    \/ OAuthAfterGetURL
    \/ OAuthAfterWaitForAuth
    \/ OAuthAfterClose
    \/ NewUserAfterVerifyOAuth
    \/ NewUserAfterGeneratePasskey
    \/ NewUserAfterCreateWallet
    \/ PasskeyAfterLogin
    \/ Dispose

SpecFlutter == InitFlutter /\ [][NextFlutter]_vars

\* the signature normalizer alone, over the signatures a backend may return
InitNorm ==
    /\ NormIdle
    /\ env = [n \in EnvNames |-> Absent]
    /\ keyShareDB = {}
    /\ reqs = [i \in ReqIds |-> OffReq]
    /\ clients = <<>>
    /\ ui = UiOff

NextNorm == CustomSignMessage \/ ReAdjust

SpecNorm == InitNorm /\ [][NextNorm]_vars

(***************************************************************************)
(* Reading a request's trace                                               *)
(***************************************************************************)
Did(r, op) == \E k \in 1..Len(r.ops) : r.ops[k] = <<"do", op>>
Returned(r, op) == \E k \in 1..Len(r.ops) : r.ops[k] = <<"ok", op>>
Count(r, e) == Cardinality({k \in 1..Len(r.ops) : r.ops[k] = e})
HasThrown(r) == \E k \in 1..Len(r.ops) : r.ops[k][1] = "throw"

\* the requests a client has sent and the handler has started on
Started == {i \in ReqIds : reqs[i].pc \notin {"off", "idle", "start"}}

IdentityCalls == {"importSession", "hasPregenWallet", "setUserShare"}
ProviderCalls == {"getAddress", "getTransactionCount", "getFeeData", "connectWithSigner"}
SigningCalls == {"signMessage", "signTransaction", "sign", "sendUserOperation"}
NetworkCalls ==
    IdentityCalls \cup ProviderCalls \cup SigningCalls
        \cup {"createModularAccountAlchemyClient"}

(***************************************************************************)
(* C1. Recovery byte after customSignMessage.                              *)
(***************************************************************************)
\* C1 (as stated): for every recovery byte b in 0..255 of the backend's
\* signature, the signature customSignMessage returns ends in byte 27 or 28.
C1_EveryByteNormalized ==
    npc # "idle" => FinalByte(returned) \in {27, 28}

\* C1 (amended): the returned signature ends in byte 27 or 28 exactly when the
\* backend's recovery byte b is 0, 1, 27 or 28 (0 -> 27, 1 -> 28, 27 and 28
\* kept); for 2 <= b < 27 it ends in b + 27 and for b > 28 in b, both above 28.
C1_NormalizedForStandardBytes ==
    npc # "idle" =>
        LET b == FinalByte(sig)
            f == FinalByte(returned)
        IN /\ b \in 0..255
           /\ (b = 0 => f = 27) /\ (b = 1 => f = 28)
           /\ (b \in {27, 28} => f = b)
           /\ (b \in 2..26 => f = b + 27)
           /\ (b > 28 => f = b)
           /\ (f \in {27, 28} <=> b \in {0, 1, 27, 28})

C1_Witness ==
    npc = "signed" /\ Len(sig) = 4 /\ FinalByte(sig) = 1 /\ FinalByte(returned) = 28

(***************************************************************************)
(* C2. Fixed points of the v-adjustment.                                   *)
(***************************************************************************)
\* C2: the v-adjustment turns a final 00 into 1b and a final 01 into 1c,
\* leaves a final 1b as it is, and applied to an already adjusted signature
\* returns it unchanged.
C2_AdjustIdempotent ==
    /\ npc # "idle" =>
         /\ SliceLast(sig, 2) = <<"0", "0">>
              => adjusted = SliceButLast(sig, 2) \o <<"1", "b">>
         /\ SliceLast(sig, 2) = <<"0", "1">>
              => adjusted = SliceButLast(sig, 2) \o <<"1", "c">>
         /\ FinalByte(sig) = 27 => adjusted = sig
    /\ npc = "readjusted" => readjusted = adjusted

C2_Witness ==
    /\ npc = "readjusted"
    /\ SliceLast(sig, 2) = <<"0", "1">>
    /\ SliceLast(adjusted, 2) = <<"1", "c">>
    /\ readjusted = adjusted

(***************************************************************************)
(* C3. Session routes: a missing session is refused before any identity    *)
(* call.                                                                   *)
(***************************************************************************)
\* C3: in alchemySessionSignHandler and ethersSessionSignHandler, a request
\* whose body carries no `session` (absent or empty) ends with status 400,
\* having constructed no CapsuleServer client and never called importSession,
\* whatever the environment holds.
C3_MissingSessionIs400 ==
    \A i \in Started :
        LET r == reqs[i] IN
        (r.route \in ExpressRoutes /\ r.body.parses /\ r.body.session \in {Absent, ""})
            => /\ r.pc = "done"
               /\ r.responses = <<400>>
               /\ ~Did(r, "new CapsuleServer")
               /\ ~Did(r, "importSession")
               /\ \A op \in IdentityCalls : ~Did(r, op)

C3_Witness ==
    \E i \in Started :
        /\ reqs[i].route = "alchemySession"
        /\ reqs[i].body.parses /\ reqs[i].body.session = Absent
        /\ \A n \in EnvNames : env[n] = "key"
        /\ reqs[i].responses = <<400>>

(***************************************************************************)
(* C4. Pregenerated-wallet routes: a token for another user is refused     *)
(* before the key-share store is touched.                                  *)
(***************************************************************************)
\* C4: in signWithEthers and signWithCosmJS, a request with a verified bearer
\* token whose subject's email differs from the body's `email` ends with
\* status 403, and getKeyShareInDB, decrypt, hasPregenWallet and setUserShare
\* are never invoked for it.
C4_SubjectMismatchIs403 ==
    \A i \in Started :
        LET r == reqs[i] IN
        (r.route \in PregenRoutes /\ r.user # NullUser /\ r.body.parses
            /\ r.body.email # r.user)
            => /\ \A op \in {"getKeyShareInDB", "decrypt", "hasPregenWallet", "setUserShare"} :
                    ~Did(r, op)
               /\ Returned(r, "req.json") => (r.pc = "done" /\ r.responses = <<403>>)
               /\ r.pc = "done" => r.responses = <<403>>

C4_Witness ==
    \E i \in Started :
        /\ reqs[i].route = "signWithCosmJS"
        /\ reqs[i].user = "a@b.com" /\ reqs[i].body.email = "c@d.com"
        /\ "c@d.com" \in keyShareDB
        /\ env["CAPSULE_API_KEY"] = "key"
        /\ reqs[i].responses = <<403>>

(***************************************************************************)
(* C5. Pregenerated-wallet routes: no credential, no body read.            *)
(***************************************************************************)
NotBearer(h) == ~h.present \/ ~StartsWith(h.value, BearerPrefix)
TokenRejected(r) == Did(r, "simulateVerifyToken") /\ r.user = NullUser

\* C5: in signWithEthers and signWithCosmJS, a request whose Authorization
\* header is absent, does not start with "Bearer ", or carries a token that
\* simulateVerifyToken rejects ends with status 401 before the body is read
\* and before any environment lookup, key-share lookup or identity call.
C5_Unauthenticated401 ==
    \A i \in Started :
        LET r == reqs[i] IN
        (r.route \in PregenRoutes /\ (NotBearer(r.hdr) \/ TokenRejected(r)))
            => /\ r.pc = "done"
               /\ r.responses = <<401>>
               /\ \A op \in {"req.json", "Deno.env.get", "new CapsuleServer",
                             "getKeyShareInDB", "decrypt"} \cup NetworkCalls : ~Did(r, op)

C5_Witness ==
    \E i \in Started :
        /\ reqs[i].route = "signWithEthers"
        /\ reqs[i].hdr.value = <<"B","e","a","r","e","r"," ","t">>
        /\ reqs[i].token = <<"t">>
        /\ TokenRejected(reqs[i])
        /\ reqs[i].body.parses
        /\ reqs[i].responses = <<401>>

(***************************************************************************)
(* C6. CAPSULE_API_KEY unset.                                              *)
(***************************************************************************)
\* the checks each handler makes before it looks at the environment
PassesEarlierChecks(r) ==
    CASE r.route = "alchemySession" -> r.body.parses /\ ~Falsy(r.body.session)
      [] r.route = "ethersSession" ->
            r.body.parses /\ ~Falsy(r.body.email) /\ ~Falsy(r.body.session)
      [] r.route \in PregenRoutes ->
            ~NotBearer(r.hdr) /\ r.user # NullUser /\ r.body.parses /\ r.body.email = r.user
      [] OTHER -> FALSE

\* C6 (as stated): with CAPSULE_API_KEY unset, every route answers 500,
\* whatever the request's headers and body are.
C6_UnsetKeyAlways500 ==
    \A i \in Started :
        (env["CAPSULE_API_KEY"] = Absent /\ reqs[i].pc = "done")
            => reqs[i].responses = <<500>>

\* C6 (amended): with CAPSULE_API_KEY unset, a route answers 500 exactly for
\* the requests that pass the checks made before the configuration check
\* (session routes: a parsed body with a non-empty session, and email on the
\* ethers route; pregenerated routes: a bearer header, an accepted token, a
\* parsed body whose email is the token's subject); any other request gets
\* that earlier check's 400, 401 or 403, or fails on its unparsable body.
\* Either way no CapsuleServer client is built and no network call is made.
C6_UnsetKey500AfterValidation ==
    \A i \in Started :
        LET r == reqs[i] IN
        env["CAPSULE_API_KEY"] = Absent
            => /\ \A op \in NetworkCalls \cup {"new CapsuleServer"} : ~Did(r, op)
               /\ r.pc \in {"done", "req.json"}
               /\ r.pc = "done" =>
                    IF PassesEarlierChecks(r) THEN r.responses = <<500>>
                    ELSE \/ r.responses \in {<<400>>, <<401>>, <<403>>}
                         \/ (~r.body.parses /\ r.responses = <<>> /\ HasThrown(r))

C6_Witness ==
    \E i \in Started :
        /\ env["CAPSULE_API_KEY"] = Absent
        /\ reqs[i].route = "signWithEthers"
        /\ PassesEarlierChecks(reqs[i])
        /\ reqs[i].responses = <<500>>

(***************************************************************************)
(* C7. A missing required variable stops the request before any network    *)
(* call.                                                                   *)
(***************************************************************************)
ReachedConfigCheck(r) == Did(r, "process.env") \/ Did(r, "Deno.env.get")

RequiredVariableAbsent(r) ==
    \/ env["CAPSULE_API_KEY"] = Absent
    \/ /\ r.route = "alchemySession"
       /\ (env["ALCHEMY_API_KEY"] = Absent \/ env["ALCHEMY_GAS_POLICY_ID"] = Absent)

\* C7: when a variable the invoked route requires is absent and the handler
\* reaches its configuration check, the request ends with status 500 and no
\* network call is made in it, before or after.
C7_MissingConfigIs500NoNetwork ==
    \A i \in Started :
        LET r == reqs[i] IN
        (RequiredVariableAbsent(r) /\ ReachedConfigCheck(r))
            => /\ r.pc = "done"
               /\ r.responses = <<500>>
               /\ \A op \in NetworkCalls : ~Did(r, op)

C7_Witness ==
    \E i \in Started :
        /\ reqs[i].route = "alchemySession"
        /\ env["CAPSULE_API_KEY"] = "key" /\ env["ALCHEMY_API_KEY"] = "key"
        /\ env["ALCHEMY_GAS_POLICY_ID"] = Absent
        /\ ReachedConfigCheck(reqs[i])
        /\ reqs[i].responses = <<500>>

(***************************************************************************)
(* C8. No wallet or no key share: 400, nothing decrypted or signed.        *)
(***************************************************************************)
\* C8: in signWithEthers and signWithCosmJS, once hasPregenWallet has
\* answered false or getKeyShareInDB has found nothing, the request ends with
\* status 400 and decrypt, setUserShare, the RPC provider and the signing
\* methods are never called.
C8_NoWalletIs400 ==
    \A i \in Started :
        LET r == reqs[i] IN
        (r.route \in PregenRoutes /\ (r.hasPregenWallet = "false" \/ r.keyShare = "none"))
            => /\ r.pc = "done"
               /\ r.responses = <<400>>
               /\ \A op \in {"decrypt", "setUserShare"} \cup ProviderCalls \cup SigningCalls :
                    ~Did(r, op)

C8_Witness ==
    \E i \in Started :
        /\ reqs[i].route = "signWithEthers"
        /\ PassesEarlierChecks(reqs[i])
        /\ reqs[i].hasPregenWallet = "true" /\ reqs[i].keyShare = "none"
        /\ reqs[i].email \notin keyShareDB
        /\ reqs[i].responses = <<400>>

(***************************************************************************)
(* C9. Exceptions.                                                         *)
(***************************************************************************)
\* the trace from its first "throw" event on
FromThrow(r) ==
    LET k == CHOOSE j \in 1..Len(r.ops) :
                 r.ops[j][1] = "throw" /\ \A m \in 1..(j - 1) : r.ops[m][1] # "throw"
    IN SubSeq(r.ops, k + 1, Len(r.ops))

\* C9 (as stated): in every handler an exception thrown at any step is logged
\* and handed exactly once to next(error), and the handler sends no response.
C9_EveryHandlerDelegates ==
    \A i \in Started :
        LET r == reqs[i] IN
        HasThrown(r)
            => /\ r.pc = "done"
               /\ Count(r, <<"do", "console.error">>) = 1
               /\ Count(r, <<"do", "next">>) = 1
               /\ r.responses = <<>>

\* C9 (amended): in the Express handlers (alchemySessionSignHandler,
\* ethersSessionSignHandler) an exception thrown while destructuring the body
\* or by an awaited call is logged once and then handed once to next(error),
\* nothing else follows and the handler sends no response. signWithEthers and
\* signWithCosmJS have no try/catch and no next: there the exception leaves
\* the handler as a rejected promise, unlogged, with no response built.
C9_ExpressDelegatesPregenRejects ==
    \A i \in Started :
        LET r == reqs[i] IN
        /\ HasThrown(r)
             => /\ r.pc = "done"
                /\ r.responses = <<>>
                /\ IF r.route \in ExpressRoutes
                   THEN FromThrow(r) = << <<"do", "console.error">>, <<"do", "next">> >>
                            /\ ~r.rejected
                   ELSE FromThrow(r) = <<>> /\ r.rejected
        /\ (Did(r, "next") \/ Did(r, "console.error") \/ r.rejected) => HasThrown(r)

C9_Witness ==
    \E i \in Started :
        /\ reqs[i].route = "ethersSession"
        /\ Len(reqs[i].ops) >= 3
        /\ reqs[i].ops[Len(reqs[i].ops) - 2] = <<"throw", "signTransaction">>
        /\ Count(reqs[i], <<"do", "next">>) = 1
        /\ reqs[i].responses = <<>>

(***************************************************************************)
(* C10. The request state machine.                                         *)
(***************************************************************************)
\* Unauthenticated 0, Authorizing 1, ResolvingIdentity 2, SigningInProgress 3,
\* Completed or Failed 4
PhaseRank(r) ==
    CASE r.pc \in {"off", "idle", "start"} -> 0
      [] r.pc = "req.json" -> 1
      [] r.pc \in IdentityCalls -> 2
      [] r.pc = "done" -> 4
      [] OTHER -> 3

\* position of the first occurrence of event e in the trace, 0 if none
Pos(r, e) ==
    IF \E k \in 1..Len(r.ops) : r.ops[k] = e
    THEN CHOOSE k \in 1..Len(r.ops) : r.ops[k] = e /\ \A m \in 1..(k - 1) : r.ops[m] # e
    ELSE 0

\* validation, configuration check, identity resolution, signing, response
SuccessChain(route) ==
    CASE route = "alchemySession" ->
            << <<"do", "req.body">>, <<"do", "process.env">>, <<"ok", "importSession">>,
               <<"ok", "sendUserOperation">>, <<"do", "respond">> >>
      [] route = "ethersSession" ->
            << <<"do", "req.body">>, <<"do", "process.env">>, <<"ok", "importSession">>,
               <<"ok", "signTransaction">>, <<"do", "respond">> >>
      [] route = "signWithEthers" ->
            << <<"ok", "req.json">>, <<"do", "Deno.env.get">>, <<"ok", "setUserShare">>,
               <<"ok", "signTransaction">>, <<"do", "respond">> >>
      [] route = "signWithCosmJS" ->
            << <<"ok", "req.json">>, <<"do", "Deno.env.get">>, <<"ok", "setUserShare">>,
               <<"ok", "sign">>, <<"do", "respond">> >>
      [] OTHER -> <<>>

InOrder(r) ==
    LET chain == SuccessChain(r.route) IN
    /\ Len(chain) > 0
    /\ \A k \in 1..Len(chain) : Pos(r, chain[k]) > 0
    /\ \A k \in 1..(Len(chain) - 1) : Pos(r, chain[k]) < Pos(r, chain[k + 1])

ConfigComplete(r) ==
    /\ ~Falsy(env["CAPSULE_API_KEY"])
    /\ r.route = "alchemySession"
         => ~Falsy(env["ALCHEMY_API_KEY"]) /\ ~Falsy(env["ALCHEMY_GAS_POLICY_ID"])

\* what holds of a request in every state
OneOutcome(r) ==
    /\ Len(r.responses) <= 1
    /\ \A k \in 1..Len(r.ops) : r.ops[k] = <<"do", "respond">> => k = Len(r.ops)
    /\ \A k \in 1..Len(r.ops) :
         r.ops[k][1] = "throw"
            => \A m \in (k + 1)..Len(r.ops) :
                 r.ops[m] \in {<<"do", "console.error">>, <<"do", "next">>}
    /\ (Len(r.responses) = 1 \/ HasThrown(r)) <=> r.pc = "done"
    /\ 200 \in {r.responses[k] : k \in 1..Len(r.responses)}
         => /\ ~HasThrown(r)
            /\ PassesEarlierChecks(r)
            /\ ConfigComplete(r)
            /\ InOrder(r)

\* what holds of every step of a request
OnlyForward(r, rNext) ==
    /\ PhaseRank(rNext) >= PhaseRank(r)
    /\ r.pc = "done" => rNext = r
    /\ Len(rNext.ops) >= Len(r.ops)
    /\ SubSeq(rNext.ops, 1, Len(r.ops)) = r.ops

\* C10: a request only moves forward through Unauthenticated, Authorizing,
\* ResolvingIdentity, SigningInProgress and stops, Completed or Failed, at its
\* first failing step: nothing runs after a failure or a response, at most one
\* response is sent, and 200 is sent only after validation, configuration
\* check, identity resolution and signing succeeded in that order.
C10_ForwardOnlyStateMachine ==
    /\ [](\A i \in ReqIds : OneOutcome(reqs[i]))
    /\ [][\A i \in ReqIds : OnlyForward(reqs[i], reqs'[i])]_vars

C10_Witness ==
    \E i \in Started :
        /\ reqs[i].route = "signWithEthers"
        /\ reqs[i].pc = "done"
        /\ reqs[i].responses = <<200>>
        /\ InOrder(reqs[i])

(***************************************************************************)
(* C16. What the v-adjustment leaves alone.                                *)
(***************************************************************************)
\* C16: the v-adjustment changes at most the final byte of the backend's
\* signature: the digits before it are returned as they were, the length in
\* hexadecimal digits is kept for every recovery byte 0..255, a final byte of
\* 27 or more is returned unchanged, and customSignMessage returns the
\* adjusted signature prefixed with "0x".
C16_OnlyFinalByteChanges ==
    npc # "idle" =>
        /\ FinalByte(sig) \in 0..255
        /\ Len(adjusted) = Len(sig)
        /\ SliceButLast(adjusted, 2) = SliceButLast(sig, 2)
        /\ \A k \in 1..(Len(sig) - 2) : adjusted[k] = sig[k]
        /\ FinalByte(sig) >= 27 => adjusted = sig
        /\ Len(returned) = Len(sig) + 2
        /\ SubSeq(returned, 1, 2) = <<"0", "x">>
        /\ SubSeq(returned, 3, Len(returned)) = adjusted

C16_Witness ==
    /\ npc = "signed"
    /\ sig = <<"a", "F", "0", "A">>
    /\ adjusted = <<"a", "F", "2", "5">>
    /\ returned = <<"0", "x", "a", "F", "2", "5">>

(***************************************************************************)
(* C11. The batch sent by alchemySessionSignHandler.                       *)
(***************************************************************************)
\* C11: a successful alchemySessionSignHandler request (session present, the
\* three variables set) makes exactly one sendUserOperation call, whose batch
\* has exactly 5 calls, the k-th being changeX(k) on the Example contract for
\* k = 1..5 in that order, and answers 200 with the userOperationResult that
\* call returned.
C11_BatchOfFiveChangeX ==
    \A i \in Started :
        LET r == reqs[i] IN
        (r.route = "alchemySession" /\ Returned(r, "sendUserOperation"))
            => /\ ~Falsy(r.session) /\ \A n \in EnvNames : ~Falsy(env[n])
               /\ Count(r, <<"do", "sendUserOperation">>) = 1
               /\ Len(r.uo) = 5
               /\ \A k \in 1..5 :
                    r.uo[k] = [target |-> "0x7920b6d8b07f0b9a3b96f238c64e022278db1419",
                               data |-> [functionName |-> "changeX", args |-> <<k>>]]
               /\ r.responses = <<200>>
               /\ r.result \in UserOpResults
               /\ r.payload = r.result

C11_Witness ==
    \E i \in Started :
        /\ reqs[i].route = "alchemySession"
        /\ reqs[i].body.session = "abc"
        /\ reqs[i].responses = <<200>>
        /\ Len(reqs[i].uo) = 5
        /\ reqs[i].payload = "0xuohash2"

(***************************************************************************)
(* C12. Identity resolved once, nothing retried.                           *)
(***************************************************************************)
\* every call a handler makes outside its own process
ExternalCalls == NetworkCalls \cup {"req.json", "getKeyShareInDB", "decrypt"}

\* C12: within one request identity resolution (importSession, or
\* setUserShare after decrypt) is invoked at most once, no external call is
\* made twice, and once an external call has failed the handler makes no
\* further external call.
C12_ResolveOnceNoRetry ==
    \A i \in Started :
        LET r == reqs[i] IN
        /\ Count(r, <<"do", "importSession">>) + Count(r, <<"do", "setUserShare">>) <= 1
        /\ Did(r, "setUserShare")
             => /\ Pos(r, <<"do", "decrypt">>) > 0
                /\ Pos(r, <<"do", "decrypt">>) < Pos(r, <<"do", "setUserShare">>)
        /\ \A op \in ExternalCalls : Count(r, <<"do", op>>) <= 1
        /\ \A k \in 1..Len(r.ops) :
             r.ops[k][1] = "throw"
                => \A m \in (k + 1)..Len(r.ops) : r.ops[m][2] \notin ExternalCalls

C12_Witness ==
    \E i \in Started :
        /\ reqs[i].route = "signWithEthers"
        /\ Count(reqs[i], <<"do", "setUserShare">>) = 1
        /\ reqs[i].ops[Len(reqs[i].ops)] = <<"throw", "getFeeData">>
        /\ reqs[i].pc = "done"


(***************************************************************************)
(* C14: the original claim - in every handler, every signature or signed   *)
(* transaction that reaches the response or a downstream collaborator has  *)
(* passed through the recovery-byte normalizer.  Only the Alchemy route    *)
(* installs customSignMessage; the other handlers pass on what the vendor  *)
(* signer returned.                                                        *)
(***************************************************************************)
Delivered(r) == {r.artifacts[k] : k \in 1..Len(r.artifacts)}

C14_EverySignatureNormalized ==
    \A i \in Started : \A a \in Delivered(reqs[i]) :
        /\ a.via = "customSignMessage"
        /\ a.out = WithPrefix0x(AdjustV(a.raw))

\* C14 (amended): every returned signing call delivers one artifact; on the
\* Alchemy route the artifact handed to the AA client is the backend's
\* signature passed through customSignMessage (0x, the leading bytes
\* untouched, a final byte below 27 raised by 27); on the other routes the
\* handler hands the vendor signer's result to the response as it received it.
C14_NormalizedOnAlchemyRouteOnly ==
    \A i \in Started :
        LET r == reqs[i] IN
        /\ Len(r.artifacts) = Cardinality({k \in 1..Len(r.ops) :
                                  r.ops[k][1] = "ok" /\ r.ops[k][2] \in SigningCalls})
        /\ \A a \in Delivered(r) :
              IF r.route = "alchemySession"
              THEN /\ a.via = "customSignMessage" /\ a.to = "alchemyClient"
                   /\ SubSeq(a.out, 1, 2) = <<"0", "x">>
                   /\ SliceButLast(SubSeq(a.out, 3, Len(a.out)), 2) = SliceButLast(a.raw, 2)
                   /\ FinalByte(a.out) =
                         IF FinalByte(a.raw) < 27 THEN FinalByte(a.raw) + 27 ELSE FinalByte(a.raw)
              ELSE /\ a.via # "customSignMessage" /\ a.to = "response"
                   /\ a.out = a.raw

C14_Witness ==
    \E i \in Started :
        /\ reqs[i].route = "alchemySession"
        /\ reqs[i].responses = <<200>>
        /\ Len(reqs[i].artifacts) = 1
        /\ reqs[i].artifacts[1].raw = <<"a", "F", "0", "1">>
        /\ reqs[i].artifacts[1].out = <<"0", "x", "a", "F", "1", "c">>


(***************************************************************************)
(* C13: two requests interleaved at their awaits.                          *)
(***************************************************************************)
\* the responses a finished request has when it is served alone: decided by
\* its own header, body, the answers its own calls got, and the deployment
OutcomeAlone(r) ==
    IF r.route \in ExpressRoutes
    THEN IF ~r.body.parses THEN <<>>
         ELSE IF ~PassesEarlierChecks(r) THEN <<400>>
         ELSE IF ~ConfigComplete(r) THEN <<500>>
         ELSE IF HasThrown(r) THEN <<>> ELSE <<200>>
    ELSE IF NotBearer(r.hdr) \/ r.user = NullUser THEN <<401>>
         ELSE IF ~r.body.parses THEN <<>>
         ELSE IF r.body.email # r.user THEN <<403>>
         ELSE IF ~ConfigComplete(r) THEN <<500>>
         ELSE IF r.hasPregenWallet = "unknown" THEN <<>>
         ELSE IF r.hasPregenWallet = "false" \/ r.body.email \notin keyShareDB THEN <<400>>
         ELSE IF HasThrown(r) THEN <<>> ELSE <<200>>

\* the CapsuleServer object of request i is its own, and holds no identity
\* but the one request i resolved
OwnClient(i) ==
    LET r == reqs[i] IN
    r.client # 0 =>
        /\ r.client \in 1..Len(clients)
        /\ clients[r.client].creator = i
        /\ clients[r.client].identity \in {NoIdentity, [by |-> i, cred |-> Credential(r)]}
        /\ \A j \in ReqIds \ {i} : reqs[j].client # r.client

\* a step of one request leaves the other requests, the objects they
\* constructed and the deployment as they were
StepIsLocal ==
    \A i \in ReqIds :
        reqs'[i] # reqs[i] =>
            /\ \A j \in ReqIds \ {i} : reqs'[j] = reqs[j]
            /\ \A c \in 1..Len(clients) : clients[c].creator # i => clients'[c] = clients[c]
            /\ env' = env /\ keyShareDB' = keyShareDB

\* C13: for two requests handled concurrently and interleaved at their
\* awaits, each finished request has the outcome it has alone, every signing
\* call of a request is made with the identity that request itself resolved
\* on the CapsuleServer object it itself created, and no step of one request
\* touches the other.
C13_RequestsIndependent ==
    /\ [](\A i \in ReqIds :
            LET r == reqs[i] IN
            /\ OwnClient(i)
            /\ Len(r.signedBy) = Len(r.artifacts)
            /\ \A k \in 1..Len(r.signedBy) :
                  r.signedBy[k] = [by |-> i, cred |-> Credential(r)]
            /\ r.pc = "done" => r.responses = OutcomeAlone(r))
    /\ [][StepIsLocal]_vars

\* request 2 constructed its client first and is still awaiting its
\* signature when request 1, on another route, has already answered 200
C13_Witness ==
    /\ reqs[1].responses = <<200>> /\ Len(reqs[1].signedBy) >= 1
    /\ reqs[1].client = 2 /\ reqs[2].client = 1
    /\ reqs[1].route # reqs[2].route
    /\ reqs[2].pc \in SigningCalls
    /\ Credential(reqs[1]) # Credential(reqs[2])


(***************************************************************************)
(* C15: termination, and the absence of timeouts.                          *)
(***************************************************************************)
\* request i is suspended in an awaited call
Suspended(i) == reqs[i].pc \in ExternalCalls \cup {"createModularAccountAlchemyClient"}

\* the only way out of an await is the awaited call returning or throwing
LeavesAwaitBySettling ==
    \A i \in ReqIds :
        Suspended(i) /\ reqs'[i] # reqs[i] =>
            /\ Len(reqs'[i].ops) > Len(reqs[i].ops)
            /\ reqs'[i].ops[Len(reqs[i].ops) + 1] \in
                  {<<"ok", reqs[i].pc>>, <<"throw", reqs[i].pc>>}

\* C15: provided every external call eventually returns or throws, every
\* request the handler has been given eventually ends, answered or failed;
\* no handler has a timeout or a cancellation: a suspended request has sent
\* nothing and leaves its await only when the awaited call settles.
C15_EndsIfCallsSettleNoTimeout ==
    /\ \A i \in ReqIds : (reqs[i].pc = "start") ~> (reqs[i].pc = "done")
    /\ [](\A i \in ReqIds :
             Suspended(i) => reqs[i].responses = <<>> /\ ~reqs[i].rejected)
    /\ [][LeavesAwaitBySettling]_vars

C15_Witness ==
    \E i \in Started :
        /\ reqs[i].route = "signWithCosmJS"
        /\ reqs[i].pc = "done"
        /\ reqs[i].responses = <<200>>
        /\ Returned(reqs[i], "connectWithSigner") /\ Returned(reqs[i], "sign")


(***************************************************************************)
(* C17: the Flutter OAuth screen.                                          *)
(***************************************************************************)
\* no login attempt is in flight
AttemptEnded == ui.login = "idle" /\ ui.attempts > 0

\* whenever a login attempt has ended with the widget still mounted,
\* _isLoading is false and _loadingProvider is null
LoadingClearedWhenMounted ==
    AttemptEnded /\ ui.mounted => ~ui.isLoading /\ ui.loadingProvider = NullProvider

\* the button is disabled for as long as an attempt is in flight
OneAttemptAtATime == ui.mounted /\ ui.login \notin {"idle", "off"} => ui.isLoading

\* C17: in the Flutter OAuth screen no setState is performed after the widget
\* is unmounted, whatever the interleaving of _checkLoginStatus and of a
\* login attempt with the widget's disposal; and whenever a login attempt
\* ends while the widget is still mounted, _isLoading is false and
\* _loadingProvider is null.
C17_NoSetStateAfterUnmount ==
    /\ ui.late = {}
    /\ LoadingClearedWhenMounted

====
